---- MODULE Spec2Model ----
(***************************************************************************)
(* Model of main.py, the Streamlit "Scam Audio Detector" script.           *)
(*                                                                         *)
(* One run of the script is one request.  The script is sequential; pc is  *)
(* the position of the run.  Strings that the code inspects (the Whisper   *)
(* transcript, the Gemini response) are sequences of one-character         *)
(* strings, and strip/split/lower/"in" are computed on them as Python      *)
(* computes them.  External collaborators (the secret store, ffmpeg,       *)
(* Whisper, Gemini, the user) are nondeterministic choices over their      *)
(* possible outcomes.  An optional value (Python None or a value) is a     *)
(* sequence of length 0 or 1.                                              *)
(***************************************************************************)
EXTENDS Integers, Sequences, FiniteSets, TLC

VARIABLES
    pc,              \* position of the script run
    GEMINI_API_KEY,  \* optional key after lines 10-13
    option,          \* optional selected input method (line 24)
    disk,            \* temporary files that exist on disk
    created,         \* temporary files created during the run
    removes,         \* per file, the number of os.remove calls made on it
    size,            \* per file, the byte size it was written with
    converted_path,  \* optional path returned by convert_to_wav
    text,            \* optional transcript returned by transcribe_audio
    error,           \* optional error returned by transcribe_audio
    whisper_text,    \* optional raw result["text"] of the speech model
    response,        \* optional raw response.text of the remote model
    result,          \* optional verdict returned by analyze_text
    explanation,     \* optional explanation returned by analyze_text
    color,           \* optional color returned by analyze_text
    errors,          \* st.error messages shown to the caller, in order
    shown,           \* optional verdict block written to the page
    trace            \* stages entered and external calls made, in order

vars == <<pc, GEMINI_API_KEY, option, disk, created, removes, size,
          converted_path, text, error, whisper_text, response, result,
          explanation, color, errors, shown, trace>>

----------------------------------------------------------------------------
(* Bounds *)

MaxTextLen == 10     \* longest Whisper transcript drawn
MaxRespLen == 5      \* longest Gemini response drawn in SpecParse
SizeSlack == 1       \* file sizes are drawn around the 100-byte threshold

(* Program constants *)

MinAudioBytes == 100
MinWords == 5

----------------------------------------------------------------------------
(* Optional values *)

None == <<>>
Some(x) == <<x>>
Truthy(o) == o # None /\ o[1] # ""

----------------------------------------------------------------------------
(* Python string functions on sequences of characters *)

Whitespace == {" ", "\t", "\n"}

RECURSIVE lstrip(_)
lstrip(s) ==
    IF s = <<>> THEN <<>>
    ELSE IF Head(s) \in Whitespace THEN lstrip(Tail(s)) ELSE s

RECURSIVE rstrip(_)
rstrip(s) ==
    IF s = <<>> THEN <<>>
    ELSE IF s[Len(s)] \in Whitespace THEN rstrip(SubSeq(s, 1, Len(s) - 1))
         ELSE s

strip(s) == rstrip(lstrip(s))

\* str.split() with no argument: the maximal runs of non-whitespace.
RECURSIVE splitFrom(_, _, _)
splitFrom(s, cur, acc) ==
    IF s = <<>> THEN (IF cur = <<>> THEN acc ELSE Append(acc, cur))
    ELSE IF Head(s) \in Whitespace
         THEN splitFrom(Tail(s), <<>>,
                        IF cur = <<>> THEN acc ELSE Append(acc, cur))
         ELSE splitFrom(Tail(s), Append(cur, Head(s)), acc)

split(s) == splitFrom(s, <<>>, <<>>)

lowerChar(c) ==
    CASE c = "Y" -> "y"
      [] c = "E" -> "e"
      [] c = "S" -> "s"
      [] c = "N" -> "n"
      [] c = "O" -> "o"
      [] OTHER -> c

lower(s) == [i \in 1..Len(s) |-> lowerChar(s[i])]

\* Python's "sub in s" on strings.
Contains(s, sub) ==
    \E i \in 1..(Len(s) - Len(sub) + 1) : SubSeq(s, i, i + Len(sub) - 1) = sub

yes == <<"y", "e", "s">>
no == <<"n", "o">>

RECURSIVE SeqsUpTo(_, _)
SeqsUpTo(A, n) ==
    IF n = 0 THEN {<<>>}
    ELSE LET shorter == SeqsUpTo(A, n - 1)
         IN  shorter \cup {Append(s, c) : s \in shorter, c \in A}

----------------------------------------------------------------------------
(* Inputs and outcomes of the external collaborators *)

UploadAudio == "Upload Audio"
RecordAudio == "Record Audio"
Options == {UploadAudio, RecordAudio}

temp_audio_path == "temp_audio_path"
wav_path == "wav_path"
Files == {temp_audio_path, wav_path}

Sizes == {0} \cup ((MinAudioBytes - SizeSlack)..(MinAudioBytes + SizeSlack))

\* st.secrets["GEMINI_API_KEY"]: raises KeyError, or returns a value.
SecretOutcomes == {"KeyError", "", "key"}
\* os.getenv("GEMINI_API_KEY"): None, or a value.
EnvOutcomes == {None, Some(""), Some("key")}

\* subprocess.run of ffmpeg: returns, raises CalledProcessError (with or
\* without an output file already written), raises FileNotFoundError, or
\* raises any other exception.
FfmpegOutcomes ==
    [kind : {"ok"}, outSize : Sizes, wrote : {TRUE}]
    \cup [kind : {"CalledProcessError"}, outSize : {0}, wrote : BOOLEAN]
    \cup [kind : {"FileNotFoundError", "OtherException"},
          outSize : {0}, wrote : {FALSE}]

Texts == SeqsUpTo({"a", " "}, MaxTextLen)

\* whisper.load_model / model.transcribe: either raises, or yields a text.
WhisperOutcomes ==
    [kind : {"load_raises", "transcribe_raises"}, text : {<<>>}]
    \cup [kind : {"text"}, text : Texts]

RespAlphabet == {"y", "e", "s", "n", "o", "Y", "N"}
ParseResponses == SeqsUpTo(RespAlphabet, MaxRespLen)

PipelineResponses ==
    { <<"Y", "e", "s">>, <<"N", "o">>, <<"o", "k">>, <<>> }

\* model.generate_content / response.text: raises, or yields a text.
GeminiOutcomes(Resps) ==
    [kind : {"raises"}, text : {<<>>}] \cup [kind : {"text"}, text : Resps]

----------------------------------------------------------------------------
(* convert_to_wav, lines 27-41.  Returns the optional path, the st.error   *)
(* messages it showed, and whether an exception left the function.         *)

convert_to_wav(audio_path, output_path, ffmpeg) ==
    CASE ffmpeg.kind = "ok" ->
            [path |-> Some(output_path), st_error |-> <<>>, raised |-> FALSE]
      [] ffmpeg.kind = "CalledProcessError" ->
            [path |-> None,
             st_error |-> <<"Error converting audio to WAV: <stderr>">>,
             raised |-> FALSE]
      [] ffmpeg.kind = "FileNotFoundError" ->
            [path |-> None,
             st_error |-> <<"FFmpeg is not installed or not found in PATH. Please install FFmpeg.">>,
             raised |-> FALSE]
      [] OTHER ->
            [path |-> None, st_error |-> <<>>, raised |-> TRUE]

\* transcribe_audio without the size check of lines 47-49.
transcribe_audio_NoSizeGate(file_size, whisper) ==
    IF whisper.kind = "load_raises"
    THEN [text |-> None, error |-> Some("Error transcribing audio: <e>"),
          calls |-> <<"whisper.load_model">>]
    ELSE IF whisper.kind = "transcribe_raises"
    THEN [text |-> None, error |-> Some("Error transcribing audio: <e>"),
          calls |-> <<"whisper.load_model", "model.transcribe">>]
    ELSE IF strip(whisper.text) = <<>>
    THEN [text |-> None, error |-> Some("Transcription is empty."),
          calls |-> <<"whisper.load_model", "model.transcribe">>]
    ELSE [text |-> Some(whisper.text), error |-> None,
          calls |-> <<"whisper.load_model", "model.transcribe">>]

\* transcribe_audio testing "not text" instead of "not text.strip()".
transcribe_audio_NoStrip(file_size, whisper) ==
    IF file_size < MinAudioBytes
    THEN [text |-> None, error |-> Some("Audio file is empty or too small."),
          calls |-> <<>>]
    ELSE IF whisper.kind = "load_raises"
    THEN [text |-> None, error |-> Some("Error transcribing audio: <e>"),
          calls |-> <<"whisper.load_model">>]
    ELSE IF whisper.kind = "transcribe_raises"
    THEN [text |-> None, error |-> Some("Error transcribing audio: <e>"),
          calls |-> <<"whisper.load_model", "model.transcribe">>]
    ELSE IF whisper.text = <<>>
    THEN [text |-> None, error |-> Some("Transcription is empty."),
          calls |-> <<"whisper.load_model", "model.transcribe">>]
    ELSE [text |-> Some(whisper.text), error |-> None,
          calls |-> <<"whisper.load_model", "model.transcribe">>]

(* transcribe_audio, lines 44-58.  Returns (text, error) and the model     *)
(* calls it made.                                                          *)

transcribe_audio(file_size, whisper) ==
    IF file_size < MinAudioBytes
    THEN [text |-> None, error |-> Some("Audio file is empty or too small."),
          calls |-> <<>>]
    ELSE IF whisper.kind = "load_raises"
    THEN [text |-> None, error |-> Some("Error transcribing audio: <e>"),
          calls |-> <<"whisper.load_model">>]
    ELSE IF whisper.kind = "transcribe_raises"
    THEN [text |-> None, error |-> Some("Error transcribing audio: <e>"),
          calls |-> <<"whisper.load_model", "model.transcribe">>]
    ELSE IF strip(whisper.text) = <<>>
    THEN [text |-> None, error |-> Some("Transcription is empty."),
          calls |-> <<"whisper.load_model", "model.transcribe">>]
    ELSE [text |-> Some(whisper.text), error |-> None,
          calls |-> <<"whisper.load_model", "model.transcribe">>]

\* analyze_text testing "no" before "yes".
analyze_text_NoBeforeYes(gemini) ==
    IF gemini.kind = "raises"
    THEN [result |-> None, explanation |-> None, color |-> None,
          st_error |-> <<"Error analyzing text with Gemini API: <e>">>]
    ELSE LET response_text == lower(gemini.text)
         IN  IF Contains(response_text, no)
             THEN [result |-> Some("Not a scam."),
                   explanation |-> Some(gemini.text),
                   color |-> Some("green"), st_error |-> <<>>]
             ELSE IF Contains(response_text, yes)
             THEN [result |-> Some("Scam detected!"),
                   explanation |-> Some(gemini.text),
                   color |-> Some("red"), st_error |-> <<>>]
             ELSE [result |-> Some("Unable to determine."),
                   explanation |-> Some(gemini.text),
                   color |-> Some("orange"), st_error |-> <<>>]

\* analyze_text returning the fallback verdict from its except clause.
analyze_text_VerdictOnFailure(gemini) ==
    IF gemini.kind = "raises"
    THEN [result |-> Some("Unable to determine."), explanation |-> Some(<<>>),
          color |-> Some("orange"),
          st_error |-> <<"Error analyzing text with Gemini API: <e>">>]
    ELSE LET response_text == lower(gemini.text)
         IN  IF Contains(response_text, yes)
             THEN [result |-> Some("Scam detected!"),
                   explanation |-> Some(gemini.text),
                   color |-> Some("red"), st_error |-> <<>>]
             ELSE IF Contains(response_text, no)
             THEN [result |-> Some("Not a scam."),
                   explanation |-> Some(gemini.text),
                   color |-> Some("green"), st_error |-> <<>>]
             ELSE [result |-> Some("Unable to determine."),
                   explanation |-> Some(gemini.text),
                   color |-> Some("orange"), st_error |-> <<>>]

(* analyze_text, lines 61-85.  Returns (result, explanation, color) and    *)
(* the st.error messages it showed.                                        *)

analyze_text(gemini) ==
    IF gemini.kind = "raises"
    THEN [result |-> None, explanation |-> None, color |-> None,
          st_error |-> <<"Error analyzing text with Gemini API: <e>">>]
    ELSE LET response_text == lower(gemini.text)
         IN  IF Contains(response_text, yes)
             THEN [result |-> Some("Scam detected!"),
                   explanation |-> Some(gemini.text),
                   color |-> Some("red"), st_error |-> <<>>]
             ELSE IF Contains(response_text, no)
             THEN [result |-> Some("Not a scam."),
                   explanation |-> Some(gemini.text),
                   color |-> Some("green"), st_error |-> <<>>]
             ELSE [result |-> Some("Unable to determine."),
                   explanation |-> Some(gemini.text),
                   color |-> Some("orange"), st_error |-> <<>>]

----------------------------------------------------------------------------
(* os.remove called on each path in turn; a missing file raises and the    *)
(* remaining calls are not made.                                           *)

RECURSIVE os_remove(_, _, _)
os_remove(paths, d, r) ==
    IF paths = <<>> THEN [disk |-> d, removes |-> r, raised |-> FALSE]
    ELSE LET f == Head(paths)
             r2 == [r EXCEPT ![f] = @ + 1]
         IN  IF f \in d THEN os_remove(Tail(paths), d \ {f}, r2)
             ELSE [disk |-> d, removes |-> r2, raised |-> TRUE]

----------------------------------------------------------------------------
Init ==
    /\ pc = "startup"
    /\ GEMINI_API_KEY = None
    /\ option = None
    /\ disk = {}
    /\ created = {}
    /\ removes = [f \in Files |-> 0]
    /\ size = [f \in Files |-> 0]
    /\ converted_path = None
    /\ text = None
    /\ error = None
    /\ whisper_text = None
    /\ response = None
    /\ result = None
    /\ explanation = None
    /\ color = None
    /\ errors = <<>>
    /\ shown = None
    /\ trace = <<>>

(* Lines 10-17: load the key, stop the script if it is missing or empty.  *)
LoadKey(secret, env) == IF secret = "KeyError" THEN env ELSE Some(secret)

\* Startup showing the error but without st.stop().
Startup_NoStop ==
    /\ pc = "startup"
    /\ \E secret \in SecretOutcomes, env \in EnvOutcomes :
          /\ GEMINI_API_KEY' = LoadKey(secret, env)
          /\ errors' = IF ~Truthy(LoadKey(secret, env))
                       THEN Append(errors, "Please set the GEMINI_API_KEY in Streamlit secrets or environment variables.")
                       ELSE errors
          /\ pc' = "select"
    /\ UNCHANGED <<option, disk, created, removes, size, converted_path, text,
                   error, whisper_text, response, result, explanation, color,
                   shown, trace>>

Startup ==
    /\ pc = "startup"
    /\ \E secret \in SecretOutcomes, env \in EnvOutcomes :
          /\ GEMINI_API_KEY' = LoadKey(secret, env)
          /\ IF ~Truthy(LoadKey(secret, env))
             THEN /\ errors' = Append(errors, "Please set the GEMINI_API_KEY in Streamlit secrets or environment variables.")
                  /\ pc' = "halted"
             ELSE /\ errors' = errors
                  /\ pc' = "select"
    /\ UNCHANGED <<option, disk, created, removes, size, converted_path, text,
                   error, whisper_text, response, result, explanation, color, shown, trace>>

(* Line 24: the input method chosen by the user.                           *)
SelectOption ==
    /\ pc = "select"
    /\ \E o \in Options : option' = Some(o)
    /\ pc' = "input"
    /\ UNCHANGED <<GEMINI_API_KEY, disk, created, removes, size,
                   converted_path, text, error, whisper_text, response, result, explanation,
                   color, errors, shown, trace>>

(* Lines 89-90 and 135-137: no file uploaded / nothing recorded.           *)
NoInput ==
    /\ pc = "input"
    /\ pc' = "returned"
    /\ UNCHANGED <<GEMINI_API_KEY, option, disk, created, removes, size,
                   converted_path, text, error, whisper_text, response, result, explanation,
                   color, errors, shown, trace>>

----------------------------------------------------------------------------
(* Upload Audio branch, lines 88-131                                       *)

(* Lines 90-94: the uploaded bytes are written to a temporary file.        *)
UploadSave ==
    /\ pc = "input"
    /\ option = Some(UploadAudio)
    /\ \E sz \in Sizes : size' = [size EXCEPT ![temp_audio_path] = sz]
    /\ disk' = disk \cup {temp_audio_path}
    /\ created' = created \cup {temp_audio_path}
    /\ pc' = "saved"
    /\ UNCHANGED <<GEMINI_API_KEY, option, removes, converted_path, text,
                   error, whisper_text, response, result, explanation, color, errors, shown,
                   trace>>

(* Lines 96-104: convert; on failure remove the input file and stop.       *)
UploadConvertStep ==
    /\ pc = "saved"
    /\ \E ffmpeg \in FfmpegOutcomes :
          LET c == convert_to_wav(temp_audio_path, wav_path, ffmpeg)
              written == IF ffmpeg.wrote THEN {wav_path} ELSE {}
              rm == os_remove(<<temp_audio_path>>, disk \cup written, removes)
          IN  /\ trace' = Append(trace, "Converting")
              /\ created' = created \cup written
              /\ size' = [size EXCEPT ![wav_path] = ffmpeg.outSize]
              /\ errors' = errors \o c.st_error
              /\ converted_path' = c.path
              /\ IF c.raised
                 THEN /\ pc' = "crashed"
                      /\ disk' = disk \cup written
                      /\ removes' = removes
                 ELSE IF ~Truthy(c.path)
                 THEN /\ pc' = IF rm.raised THEN "crashed" ELSE "stopped"
                      /\ disk' = rm.disk
                      /\ removes' = rm.removes
                 ELSE /\ pc' = "ready"
                      /\ disk' = disk \cup written
                      /\ removes' = removes
    /\ UNCHANGED <<GEMINI_API_KEY, option, text, error, whisper_text, response, result,
                   explanation, color, shown>>

UploadConvert == option = Some(UploadAudio) /\ UploadConvertStep

(* Line 106 false, then lines 129-131: no Analyze click, clean up.         *)
UploadNoAnalyzeStep ==
    /\ pc = "ready"
    /\ LET rm == os_remove(<<temp_audio_path, converted_path[1]>>, disk, removes)
       IN  /\ disk' = rm.disk
           /\ removes' = rm.removes
           /\ pc' = IF rm.raised THEN "crashed" ELSE "returned"
    /\ UNCHANGED <<GEMINI_API_KEY, option, created, size, converted_path, text,
                   error, whisper_text, response, result, explanation, color, errors, shown,
                   trace>>

UploadNoAnalyze == option = Some(UploadAudio) /\ UploadNoAnalyzeStep

(* Lines 106-114: Analyze clicked; transcribe, on error clean up and stop. *)
UploadTranscribeStep ==
    /\ pc = "ready"
    /\ \E whisper \in WhisperOutcomes :
          LET t == transcribe_audio(size[converted_path[1]], whisper)
              rm == os_remove(<<temp_audio_path, converted_path[1]>>, disk, removes)
          IN  /\ trace' = Append(trace, "Transcribing") \o t.calls
              /\ text' = t.text
              /\ error' = t.error
              /\ whisper_text' = IF t.calls # <<>> /\ whisper.kind = "text"
                                 THEN Some(whisper.text) ELSE None
              /\ IF Truthy(t.error)
                 THEN /\ errors' = Append(errors, t.error[1])
                      /\ disk' = rm.disk
                      /\ removes' = rm.removes
                      /\ pc' = IF rm.raised THEN "crashed" ELSE "stopped"
                 ELSE /\ errors' = errors
                      /\ disk' = disk
                      /\ removes' = removes
                      /\ pc' = "transcribed"
    /\ UNCHANGED <<GEMINI_API_KEY, option, created, size, converted_path,
                   response, result, explanation, color, shown>>

UploadTranscribe == option = Some(UploadAudio) /\ UploadTranscribeStep

(* Lines 116-121: fewer than 5 words: report, clean up and stop.           *)
UploadTooShort ==
    "Transcription is too short for analysis. Please upload a longer audio clip."

\* The length check with the threshold one word too low.
UploadLengthCheckStep_FourWords(msg) ==
    /\ pc = "transcribed"
    /\ trace' = Append(trace, "LengthCheck")
    /\ LET rm == os_remove(<<temp_audio_path, converted_path[1]>>, disk, removes)
       IN  IF Len(split(text[1])) < MinWords - 1
           THEN /\ errors' = Append(errors, msg)
                /\ disk' = rm.disk
                /\ removes' = rm.removes
                /\ pc' = IF rm.raised THEN "crashed" ELSE "stopped"
           ELSE /\ errors' = errors
                /\ disk' = disk
                /\ removes' = removes
                /\ pc' = "classify"
    /\ UNCHANGED <<GEMINI_API_KEY, option, created, size, converted_path, text,
                   error, whisper_text, response, result, explanation, color,
                   shown>>

\* The length check reporting the error without cleaning up and stopping.
UploadLengthCheckStep_NoStop(msg) ==
    /\ pc = "transcribed"
    /\ trace' = Append(trace, "LengthCheck")
    /\ errors' = IF Len(split(text[1])) < MinWords
                 THEN Append(errors, msg) ELSE errors
    /\ pc' = "classify"
    /\ UNCHANGED <<GEMINI_API_KEY, option, disk, created, removes, size,
                   converted_path, text, error, whisper_text, response, result,
                   explanation, color, shown>>

UploadLengthCheckStep(msg) ==
    /\ pc = "transcribed"
    /\ trace' = Append(trace, "LengthCheck")
    /\ LET rm == os_remove(<<temp_audio_path, converted_path[1]>>, disk, removes)
       IN  IF Len(split(text[1])) < MinWords
           THEN /\ errors' = Append(errors, msg)
                /\ disk' = rm.disk
                /\ removes' = rm.removes
                /\ pc' = IF rm.raised THEN "crashed" ELSE "stopped"
           ELSE /\ errors' = errors
                /\ disk' = disk
                /\ removes' = removes
                /\ pc' = "classify"
    /\ UNCHANGED <<GEMINI_API_KEY, option, created, size, converted_path, text,
                   error, whisper_text, response, result, explanation, color, shown>>

UploadLengthCheck ==
    option = Some(UploadAudio) /\ UploadLengthCheckStep(UploadTooShort)

(* Lines 123-131: classify, show the verdict if there is one, clean up.    *)
UploadClassifyStep(Resps) ==
    /\ pc = "classify"
    /\ \E gemini \in GeminiOutcomes(Resps) :
          LET a == analyze_text(gemini)
              rm == os_remove(<<temp_audio_path, converted_path[1]>>, disk, removes)
          IN  /\ response' = IF gemini.kind = "text" THEN Some(gemini.text) ELSE None
              /\ result' = a.result
              /\ explanation' = a.explanation
              /\ color' = a.color
              /\ errors' = errors \o a.st_error
              /\ IF Truthy(a.result)
                 THEN /\ shown' = Some([result |-> a.result[1],
                                        explanation |-> a.explanation[1],
                                        color |-> a.color[1]])
                      /\ trace' = trace \o <<"Classifying", "Done">>
                 ELSE /\ shown' = shown
                      /\ trace' = Append(trace, "Classifying")
              /\ disk' = rm.disk
              /\ removes' = rm.removes
              /\ pc' = IF rm.raised THEN "crashed" ELSE "returned"
    /\ UNCHANGED <<GEMINI_API_KEY, option, created, size, converted_path, text,
                   error, whisper_text>>

UploadClassify ==
    option = Some(UploadAudio) /\ UploadClassifyStep(PipelineResponses)

----------------------------------------------------------------------------
(* Record Audio branch, lines 133-186                                      *)

\* RecordSave without the size gate of lines 146-149.
RecordSave_NoGate ==
    /\ pc = "input"
    /\ option = Some(RecordAudio)
    /\ \E sz \in Sizes : size' = [size EXCEPT ![temp_audio_path] = sz]
    /\ created' = created \cup {temp_audio_path}
    /\ disk' = disk \cup {temp_audio_path}
    /\ pc' = "saved"
    /\ UNCHANGED <<GEMINI_API_KEY, option, removes, converted_path, text,
                   error, whisper_text, response, result, explanation, color,
                   errors, shown, trace>>

(* Lines 137-149: the recorded bytes are written to a temporary file; a    *)
(* file below 100 bytes is reported, removed, and the script stops.        *)
RecordSave ==
    /\ pc = "input"
    /\ option = Some(RecordAudio)
    /\ \E sz \in Sizes :
          LET file_size == sz
              rm == os_remove(<<temp_audio_path>>, disk \cup {temp_audio_path},
                              removes)
          IN  /\ size' = [size EXCEPT ![temp_audio_path] = sz]
              /\ created' = created \cup {temp_audio_path}
              /\ IF file_size < MinAudioBytes
                 THEN /\ errors' = Append(errors, "Recorded audio file is empty. Please ensure your microphone is working and browser permissions are granted.")
                      /\ disk' = rm.disk
                      /\ removes' = rm.removes
                      /\ pc' = IF rm.raised THEN "crashed" ELSE "stopped"
                 ELSE /\ errors' = errors
                      /\ disk' = disk \cup {temp_audio_path}
                      /\ removes' = removes
                      /\ pc' = "saved"
    /\ UNCHANGED <<GEMINI_API_KEY, option, converted_path, text, error,
                   whisper_text, response, result, explanation, color, shown, trace>>

(* Lines 151-159: convert; on failure remove the input file and stop.      *)
RecordConvert ==
    /\ pc = "saved"
    /\ option = Some(RecordAudio)
    /\ \E ffmpeg \in FfmpegOutcomes :
          LET c == convert_to_wav(temp_audio_path, wav_path, ffmpeg)
              written == IF ffmpeg.wrote THEN {wav_path} ELSE {}
              rm == os_remove(<<temp_audio_path>>, disk \cup written, removes)
          IN  /\ trace' = Append(trace, "Converting")
              /\ created' = created \cup written
              /\ size' = [size EXCEPT ![wav_path] = ffmpeg.outSize]
              /\ errors' = errors \o c.st_error
              /\ converted_path' = c.path
              /\ IF c.raised
                 THEN /\ pc' = "crashed"
                      /\ disk' = disk \cup written
                      /\ removes' = removes
                 ELSE IF ~Truthy(c.path)
                 THEN /\ pc' = IF rm.raised THEN "crashed" ELSE "stopped"
                      /\ disk' = rm.disk
                      /\ removes' = rm.removes
                 ELSE /\ pc' = "ready"
                      /\ disk' = disk \cup written
                      /\ removes' = removes
    /\ UNCHANGED <<GEMINI_API_KEY, option, text, error, whisper_text, response, result,
                   explanation, color, shown>>

(* Line 161 false, then lines 184-186: no Analyze click, clean up.         *)
RecordNoAnalyze ==
    /\ pc = "ready"
    /\ option = Some(RecordAudio)
    /\ LET rm == os_remove(<<temp_audio_path, converted_path[1]>>, disk, removes)
       IN  /\ disk' = rm.disk
           /\ removes' = rm.removes
           /\ pc' = IF rm.raised THEN "crashed" ELSE "returned"
    /\ UNCHANGED <<GEMINI_API_KEY, option, created, size, converted_path, text,
                   error, whisper_text, response, result, explanation, color, errors, shown,
                   trace>>

(* Lines 161-169: Analyze clicked; transcribe, on error clean up and stop. *)
RecordTranscribe ==
    /\ pc = "ready"
    /\ option = Some(RecordAudio)
    /\ \E whisper \in WhisperOutcomes :
          LET t == transcribe_audio(size[converted_path[1]], whisper)
              rm == os_remove(<<temp_audio_path, converted_path[1]>>, disk, removes)
          IN  /\ trace' = Append(trace, "Transcribing") \o t.calls
              /\ text' = t.text
              /\ error' = t.error
              /\ whisper_text' = IF t.calls # <<>> /\ whisper.kind = "text"
                                 THEN Some(whisper.text) ELSE None
              /\ IF Truthy(t.error)
                 THEN /\ errors' = Append(errors, t.error[1])
                      /\ disk' = rm.disk
                      /\ removes' = rm.removes
                      /\ pc' = IF rm.raised THEN "crashed" ELSE "stopped"
                 ELSE /\ errors' = errors
                      /\ disk' = disk
                      /\ removes' = removes
                      /\ pc' = "transcribed"
    /\ UNCHANGED <<GEMINI_API_KEY, option, created, size, converted_path,
                   response, result, explanation, color, shown>>

(* Lines 171-176: fewer than 5 words: report, clean up and stop.           *)
RecordTooShort ==
    "Transcription is too short for analysis. Please record a longer audio clip."

RecordLengthCheck ==
    /\ pc = "transcribed"
    /\ option = Some(RecordAudio)
    /\ trace' = Append(trace, "LengthCheck")
    /\ LET rm == os_remove(<<temp_audio_path, converted_path[1]>>, disk, removes)
       IN  IF Len(split(text[1])) < MinWords
           THEN /\ errors' = Append(errors, RecordTooShort)
                /\ disk' = rm.disk
                /\ removes' = rm.removes
                /\ pc' = IF rm.raised THEN "crashed" ELSE "stopped"
           ELSE /\ errors' = errors
                /\ disk' = disk
                /\ removes' = removes
                /\ pc' = "classify"
    /\ UNCHANGED <<GEMINI_API_KEY, option, created, size, converted_path, text,
                   error, whisper_text, response, result, explanation, color, shown>>

(* Lines 178-186: classify, show the verdict if there is one, clean up.    *)
RecordClassify ==
    /\ pc = "classify"
    /\ option = Some(RecordAudio)
    /\ \E gemini \in GeminiOutcomes(PipelineResponses) :
          LET a == analyze_text(gemini)
              rm == os_remove(<<temp_audio_path, converted_path[1]>>, disk, removes)
          IN  /\ response' = IF gemini.kind = "text" THEN Some(gemini.text) ELSE None
              /\ result' = a.result
              /\ explanation' = a.explanation
              /\ color' = a.color
              /\ errors' = errors \o a.st_error
              /\ IF Truthy(a.result)
                 THEN /\ shown' = Some([result |-> a.result[1],
                                        explanation |-> a.explanation[1],
                                        color |-> a.color[1]])
                      /\ trace' = trace \o <<"Classifying", "Done">>
                 ELSE /\ shown' = shown
                      /\ trace' = Append(trace, "Classifying")
              /\ disk' = rm.disk
              /\ removes' = rm.removes
              /\ pc' = IF rm.raised THEN "crashed" ELSE "returned"
    /\ UNCHANGED <<GEMINI_API_KEY, option, created, size, converted_path, text,
                   error, whisper_text>>

----------------------------------------------------------------------------
Next ==
    \/ Startup
    \/ SelectOption
    \/ NoInput
    \/ UploadSave
    \/ UploadConvert
    \/ UploadNoAnalyze
    \/ UploadTranscribe
    \/ UploadLengthCheck
    \/ UploadClassify
    \/ RecordSave
    \/ RecordConvert
    \/ RecordNoAnalyze
    \/ RecordTranscribe
    \/ RecordLengthCheck
    \/ RecordClassify

Spec == Init /\ [][Next]_vars

----------------------------------------------------------------------------
(* The classification step alone, from the reachable state in which an     *)
(* uploaded clip was converted, transcribed to five words and passed the   *)
(* length check; the remote model's response ranges over ParseResponses.   *)

InitParse ==
    /\ pc = "classify"
    /\ GEMINI_API_KEY = Some("key")
    /\ option = Some(UploadAudio)
    /\ disk = Files
    /\ created = Files
    /\ removes = [f \in Files |-> 0]
    /\ size = [f \in Files |-> MinAudioBytes]
    /\ converted_path = Some(wav_path)
    /\ text = Some(<<"a", " ", "a", " ", "a", " ", "a", " ", "a">>)
    /\ error = None
    /\ whisper_text = text
    /\ response = None
    /\ result = None
    /\ explanation = None
    /\ color = None
    /\ errors = <<>>
    /\ shown = None
    /\ trace = <<"Converting", "Transcribing", "whisper.load_model",
                 "model.transcribe", "LengthCheck">>

ParseClassify == option = Some(UploadAudio) /\ UploadClassifyStep(ParseResponses)

NextParse == ParseClassify

SpecParse == InitParse /\ [][NextParse]_vars

----------------------------------------------------------------------------
(* Vocabulary of the properties                                            *)

Ended == pc \in {"halted", "returned", "stopped", "crashed"}

StageOrder == <<"Converting", "Transcribing", "LengthCheck", "Classifying", "Done">>
IsStage(x) == \E i \in 1..Len(StageOrder) : StageOrder[i] = x
StagesEntered == SelectSeq(trace, IsStage)
InTrace(x) == \E i \in 1..Len(trace) : trace[i] = x
Occurrences(x) == Cardinality({i \in 1..Len(trace) : trace[i] = x})
Shown(msg) == \E i \in 1..Len(errors) : errors[i] = msg

\* Number of whitespace-delimited words: positions where a word starts.
WordStarts(s) ==
    Cardinality({i \in 1..Len(s) :
                    /\ s[i] \notin Whitespace
                    /\ (i = 1 \/ s[i - 1] \in Whitespace)})

\* Case-insensitive occurrence of "yes" / "no" in the raw response.
HasYes(r) ==
    \E i \in 1..(Len(r) - 2) :
        r[i] \in {"y", "Y"} /\ r[i + 1] \in {"e", "E"} /\ r[i + 2] \in {"s", "S"}
HasNo(r) ==
    \E i \in 1..(Len(r) - 1) : r[i] \in {"n", "N"} /\ r[i + 1] \in {"o", "O"}

----------------------------------------------------------------------------
\* C1: when a request has ended, on any exit path, every temporary file
\* created during it is no longer on disk and was removed exactly once.
C1_EveryTempFileDeletedOnce ==
    Ended => \A f \in created : f \notin disk /\ removes[f] = 1

\* C2: a transcript of fewer than 5 whitespace-delimited words is never
\* passed to the classifier and its request ends stopped with the too-short
\* error; the classifier is only ever entered with 5 or more words.
C2_ShortTranscriptNeverClassified ==
    /\ (text # None /\ WordStarts(text[1]) < 5) =>
          /\ ~InTrace("Classifying")
          /\ InTrace("LengthCheck") =>
                /\ pc = "stopped"
                /\ Shown(UploadTooShort) \/ Shown(RecordTooShort)
    /\ InTrace("Classifying") => text # None /\ WordStarts(text[1]) >= 5

C2_Witness ==
    /\ text # None /\ WordStarts(text[1]) = 4
    /\ InTrace("LengthCheck") /\ pc = "stopped"

\* C3: when the converted file is below 100 bytes, transcribe_audio returns
\* (None, "Audio file is empty or too small.") and the speech model is
\* neither loaded nor run; the model is loaded only for files of 100 bytes
\* or more.
C3_SmallFileSkipsModel ==
    /\ (InTrace("Transcribing") /\ size[wav_path] < 100) =>
          /\ text = None
          /\ error = Some("Audio file is empty or too small.")
          /\ ~InTrace("whisper.load_model")
          /\ ~InTrace("model.transcribe")
    /\ (InTrace("whisper.load_model") \/ InTrace("model.transcribe")) =>
          size[wav_path] >= 100

C3_Witness ==
    /\ InTrace("Transcribing") /\ size[wav_path] = 99
    /\ error = Some("Audio file is empty or too small.")

\* C4: for every response text, the verdict is "Scam detected!"/red if the
\* response contains "yes" in any letter case, else "Not a scam."/green if
\* it contains "no", else "Unable to determine."/orange, and the
\* explanation is the response text exactly as received.
C4_VerdictParsing ==
    response # None =>
        LET r == response[1]
        IN  /\ result = Some(IF HasYes(r) THEN "Scam detected!"
                             ELSE IF HasNo(r) THEN "Not a scam."
                             ELSE "Unable to determine.")
            /\ color = Some(IF HasYes(r) THEN "red"
                            ELSE IF HasNo(r) THEN "green"
                            ELSE "orange")
            /\ (color = Some("red")) <=> (result = Some("Scam detected!"))
            /\ (color = Some("green")) <=> (result = Some("Not a scam."))
            /\ (color = Some("orange")) <=> (result = Some("Unable to determine."))
            /\ explanation = Some(r)

C4_Witness ==
    /\ response # None
    /\ HasYes(response[1]) /\ HasNo(response[1])
    /\ response[1] # lower(response[1])
    /\ color = Some("red")
    /\ explanation = response

\* C5: after transcribe_audio was called, exactly one of text and error is
\* None, a returned text has a non-whitespace character, and blank model
\* output became the "Transcription is empty." error.
C5_TranscriptNeverBlank ==
    InTrace("Transcribing") =>
        /\ (text = None) # (error = None)
        /\ text # None => \E i \in 1..Len(text[1]) : text[1][i] \notin Whitespace
        /\ (/\ whisper_text # None
            /\ \A i \in 1..Len(whisper_text[1]) : whisper_text[1][i] \in Whitespace)
           => (text = None /\ error = Some("Transcription is empty."))

C5_Witness ==
    /\ InTrace("Transcribing")
    /\ whisper_text # None /\ Len(whisper_text[1]) > 0
    /\ \A i \in 1..Len(whisper_text[1]) : whisper_text[1][i] \in Whitespace
    /\ error = Some("Transcription is empty.")

\* C6: when the remote call fails, analyze_text returned (None, None, None),
\* no verdict block was shown, an error was shown, both temporary files
\* were removed once, and the request ended without reaching Done.
C6_ClassificationFailure ==
    (InTrace("Classifying") /\ response = None) =>
        /\ result = None /\ explanation = None /\ color = None
        /\ shown = None
        /\ ~InTrace("Done")
        /\ Shown("Error analyzing text with Gemini API: <e>")
        /\ disk = {}
        /\ \A f \in Files : removes[f] = 1
        /\ pc = "returned"

C6_Witness ==
    /\ InTrace("Classifying") /\ response = None
    /\ pc = "returned" /\ disk = {}

\* C7: if after startup the key is None or empty, the script has halted
\* with an error shown, no temporary file was created and no stage ran.
C7_NoKeyHalts ==
    (pc # "startup" /\ (GEMINI_API_KEY = None \/ GEMINI_API_KEY = Some(""))) =>
        /\ pc = "halted"
        /\ Len(errors) = 1
        /\ created = {} /\ disk = {}
        /\ trace = <<>>

C7_Witness == pc = "halted" /\ GEMINI_API_KEY = Some("") /\ Len(errors) = 1

\* C8: the stages entered are a prefix of Converting, Transcribing,
\* LengthCheck, Classifying, Done; a stage is entered only after the one
\* before it succeeded; no stage or external call happens twice; and once
\* an error was shown the request has ended.
C8_StageOrder ==
    /\ StagesEntered = SubSeq(StageOrder, 1, Len(StagesEntered))
    /\ InTrace("Transcribing") => converted_path = Some(wav_path)
    /\ InTrace("LengthCheck") => (text # None /\ error = None)
    /\ InTrace("Classifying") => (text # None /\ WordStarts(text[1]) >= 5)
    /\ InTrace("Done") => result # None
    /\ \A x \in {"whisper.load_model", "model.transcribe"} : Occurrences(x) <= 1
    /\ errors # <<>> => Ended

C8_Witness == StagesEntered = StageOrder /\ pc = "returned"

\* C9: no request ends by an uncaught exception, and every request that
\* failed at some stage has shown at least one error message.
RequestFailed ==
    \/ pc \in {"halted", "stopped", "crashed"}
    \/ pc = "returned" /\ InTrace("Classifying") /\ ~InTrace("Done")

C9_NoSilentFailure ==
    /\ pc # "crashed"
    /\ RequestFailed => Len(errors) >= 1

\* C10: in Record mode a saved blob below 100 bytes stops the request with
\* an error, no stage entered and its one temporary file removed once; and
\* every step the Record branch takes after the size gate is a step the
\* Upload branch takes from the same state (up to the wording of the
\* too-short message).
RecordGate ==
    (option = Some(RecordAudio) /\ temp_audio_path \in created
        /\ size[temp_audio_path] < 100) =>
        /\ pc = "stopped"
        /\ trace = <<>>
        /\ Len(errors) = 1
        /\ created = {temp_audio_path} /\ disk = {}
        /\ removes[temp_audio_path] = 1 /\ removes[wav_path] = 0

RecordStepIsUploadStep ==
    (option = Some(RecordAudio) /\ pc \in {"saved", "ready", "transcribed", "classify"}) =>
        \/ UploadConvertStep
        \/ UploadNoAnalyzeStep
        \/ UploadTranscribeStep
        \/ UploadLengthCheckStep(RecordTooShort)
        \/ UploadClassifyStep(PipelineResponses)

C10_RecordGateThenSamePipeline ==
    [](RecordGate) /\ [][RecordStepIsUploadStep]_vars

C10_Witness ==
    /\ option = Some(RecordAudio) /\ size[temp_audio_path] = 99
    /\ pc = "stopped" /\ disk = {}

====
